---- MODULE Spec2Model ----
(***************************************************************************)
(* Model of dcos_e2e._common.run_subprocess: one invocation that spawns a  *)
(* child, drains its stdout and stderr pipes with select/os.read, feeds a  *)
(* LineLogger per stream, waits for the child and builds either a          *)
(* CompletedProcess or a CalledProcessError, with the terminate / wait(1)  *)
(* / kill cleanup of the except block and the Popen context manager exit.  *)
(* The child and the kernel pipes are the environment.                     *)
(***************************************************************************)
EXTENDS Integers, Sequences, FiniteSets, TLC

VARIABLES
    pc,              \* position of run_subprocess
    args,            \* the args parameter
    log_output_live, \* the log_output_live parameter
    pipe_output,     \* the pipe_output parameter
    alphabet,        \* the bytes the command run may write to each stream
    fds,             \* list of descriptors still drained (fds)
    ready,           \* descriptors of ret[0] not yet visited by the for loop
    lists,           \* stdout_list / stderr_list: chunks appended so far
    buffer,          \* LineLogger.buffer of each stream
    sink,            \* lines received by LOGGER.debug / LOGGER.warning
    stdout,          \* local stdout after the join (or None)
    stderr,          \* local stderr after the join (or None)
    returncode,      \* process.returncode: {} is None, {c} is c
    exc,             \* exception propagating out of the try / with block
    origFault,       \* first exception raised inside the try body
    outcome,         \* what the caller receives
    hist,            \* what the invocation has done so far (calls, reads)
    elapsed,         \* seconds spent in process.wait(1)
    child,           \* "none", "running", "zombie" (exited), "reaped"
    exitStatus,      \* status the child exited with
    pipe,            \* bytes in each kernel pipe
    closed,          \* write end of each pipe closed by the child
    written,         \* all bytes the child has written to each stream
    blocked,         \* stream whose full pipe the child is blocked writing to
    rdClosed         \* read ends closed by Popen.__exit__

vars == <<pc, args, log_output_live, pipe_output, alphabet, fds, ready,
          lists, buffer, sink, stdout, stderr, returncode, exc, origFault, outcome, hist,
          elapsed, child, exitStatus, pipe, closed, written, blocked,
          rdClosed>>

parentVars == <<pc, fds, ready, lists, buffer, sink, stdout, stderr,
                returncode, exc, origFault, outcome, hist, elapsed>>
childVars == <<child, exitStatus, pipe, closed, written, blocked>>
paramVars == <<args, log_output_live, pipe_output, alphabet>>

----------------------------------------------------------------------------
(* Bounds of the model *)

MaxLen == 3        \* bytes the child writes to one stream at most
PipeCap == 2       \* capacity of a kernel pipe, in bytes
ReadMax == 2       \* size argument of os.read (8192 in the source), scaled

(* Program constants *)

Grace == 1         \* process.wait(1): seconds of grace after terminate()
NL == 10           \* b'\n'
SIGTERM == 15
SIGKILL == 9
SIGPIPE == 13

Streams == {"stdout", "stderr"}
Bytes == {NL, 97, 98, 255}
Plain == {97}
ExitCodes == {0, 2}
ArgsSet == {<<"cmd">>}
ExcTypes == {"OSError", "KeyboardInterrupt"}

None == "None"
NoExc == [type |-> None, at |-> None]
NoneBytes == [some |-> FALSE, val |-> <<>>]
SomeBytes(b) == [some |-> TRUE, val |-> b]
NoOutcome == [kind |-> None, args |-> <<>>, returncode |-> {},
              stdout |-> NoneBytes, stderr |-> NoneBytes, exc |-> NoExc]

----------------------------------------------------------------------------
(* Pure functions *)

RECURSIVE SplitAcc(_, _, _)
SplitAcc(s, cur, acc) ==
    IF s = <<>> THEN Append(acc, cur)
    ELSE IF Head(s) = NL THEN SplitAcc(Tail(s), <<>>, Append(acc, cur))
    ELSE SplitAcc(Tail(s), Append(cur, Head(s)), acc)

\* bytes.split(b'\n'): always at least one segment
Split(s) == SplitAcc(s, <<>>, <<>>)

\* the join keeps the last chunk only
JoinLast(chunks) == IF chunks = <<>> THEN <<>> ELSE chunks[Len(chunks)]

RECURSIVE Join(_)
\* b''.join(chunks)
Join(chunks) ==
    IF chunks = <<>> THEN <<>> ELSE Head(chunks) \o Join(Tail(chunks))

Front(s) == SubSeq(s, 1, Len(s) - 1)
Last(s) == s[Len(s)]
Take(s, n) == SubSeq(s, 1, IF Len(s) < n THEN Len(s) ELSE n)
Drop(s, n) == SubSeq(s, (IF Len(s) < n THEN Len(s) ELSE n) + 1, Len(s))

HexDigit(n) == IF n < 10 THEN 48 + n ELSE 87 + n

\* errors='backslashreplace': an undecodable byte becomes \xNN
Escape(b) == <<92, 120, HexDigit(b \div 16), HexDigit(b % 16)>>

RECURSIVE DecodeAsciiReplace(_)
DecodeAsciiReplace(bs) ==
    IF bs = <<>> THEN <<>>
    ELSE (IF Head(bs) < 128 THEN <<Head(bs)>> ELSE Escape(Head(bs)))
         \o DecodeAsciiReplace(Tail(bs))

RECURSIVE ValidUtf8(_)
\* strict UTF-8 over one and two byte sequences
ValidUtf8(bs) ==
    IF bs = <<>> THEN TRUE
    ELSE IF Head(bs) < 128 THEN ValidUtf8(Tail(bs))
    ELSE IF /\ Head(bs) >= 194 /\ Head(bs) <= 223 /\ Len(bs) >= 2
            /\ bs[2] >= 128 /\ bs[2] <= 191
         THEN ValidUtf8(Tail(Tail(bs)))
    ELSE FALSE

RECURSIVE DecodeUtf8(_)
DecodeUtf8(bs) ==
    IF bs = <<>> THEN <<>>
    ELSE IF Head(bs) < 128 THEN <<Head(bs)>> \o DecodeUtf8(Tail(bs))
    ELSE <<(Head(bs) - 192) * 64 + (bs[2] - 128)>>
         \o DecodeUtf8(Tail(Tail(bs)))

\* decode(encoding='utf-8', errors='strict') raises UnicodeDecodeError
StrictRaises(bs) == ~ValidUtf8(bs)

\* the fallback decodes with errors='strict' too
FallbackStrict(bs) == \E i \in 1..Len(bs) : bs[i] >= 128

\* decode(encoding='ascii', errors='backslashreplace') raises: it never
\* does, a byte is ASCII or is escaped
FallbackRaises(bs) == FALSE

\* _safe_decode raises
DecodeRaises(bs) == StrictRaises(bs) /\ FallbackRaises(bs)

_safe_decode(output_bytes) ==
    IF ValidUtf8(output_bytes)
    THEN DecodeUtf8(output_bytes)
    ELSE DecodeAsciiReplace(output_bytes)

\* both LineLoggers are built on LOGGER.warning
LoggerOfWarning(fd) == "warning"

\* the logger each LineLogger was constructed with (fds_map)
LoggerOf(fd) == IF fd = "stdout" THEN "debug" ELSE "warning"

RECURSIVE DecodeAll(_)
DecodeAll(ls) ==
    IF ls = <<>> THEN <<>>
    ELSE <<_safe_decode(Head(ls))>> \o DecodeAll(Tail(ls))

\* log without `self.buffer = lines.pop()`: everything stays buffered
LogBufferKeepAll(buf, data) == buf \o data

\* LineLogger.log: the lines it forwards and the buffer it keeps
LogLines(buf, data) == Front(Split(buf \o data))
LogBuffer(buf, data) == Last(Split(buf \o data))

\* the lines a chunk makes the LineLogger forward, whatever the flag
ForwardedAlways(live, buf, data) == Front(Split(buf \o data))

\* `if log_output_live: logger.log(buff)`: the lines a chunk makes the
\* LineLogger forward
Forwarded(live, buf, data) == IF live THEN LogLines(buf, data) ELSE <<>>

\* flush without the test of len(self.buffer)
FlushLinesAlways(buf) == <<buf>>

\* LineLogger.flush: the lines it forwards
FlushLines(buf) == IF Len(buf) > 0 THEN <<buf>> ELSE <<>>

\* waiting on one descriptor at a time: all of stdout, then all of stderr
SelectFirst(f) == IF f = <<>> THEN <<>> ELSE <<f[1]>>

\* descriptors select.select(fds, [], []) waits on
SelectFds(f) == f

\* a descriptor is readable when it has data or is at end-of-file
Readable(fd) == pipe[fd] # <<>> \/ closed[fd]

\* every descriptor waited on is taken as ready: `for fd in fds`
FilterAll(f) == f

RECURSIVE Filter(_)
\* ret[0]: the descriptors select reports readable, in the order given
Filter(f) ==
    IF f = <<>> THEN <<>>
    ELSE (IF Readable(Head(f)) THEN <<Head(f)>> ELSE <<>>) \o Filter(Tail(f))

\* the descriptor stays in the list
RemoveNothing(f, x) == f

RECURSIVE Remove(_, _)
\* list.remove(x): removes the first occurrence
Remove(f, x) ==
    IF f = <<>> THEN <<>>
    ELSE IF Head(f) = x THEN Tail(f) ELSE <<Head(f)>> \o Remove(Tail(f), x)

Range(f) == {f[i] : i \in 1..Len(f)}

----------------------------------------------------------------------------
\* the letter a command writes to a stream: a on stdout, b on stderr
Text(s) == IF s = "stdout" THEN {97} ELSE {98}

\* commands that write lines of text to one stream and text without
\* newline to the other
LineCommands ==
    {[s \in Streams |-> IF s = r THEN Text(s) \cup {NL} ELSE Text(s)] :
        r \in Streams}

\* commands that write lines of text and of bytes that are not UTF-8 to
\* stdout, and nothing to stderr
BinaryCommands ==
    {[s \in Streams |-> IF s = "stdout" THEN {NL, 97, 255} ELSE {}]}

\* commands that write plain text only
PlainCommands == {[s \in Streams |-> Plain]}

\* the state when run_subprocess is called with one of the given commands
Called(commands) ==
    /\ pc = "spawn"
    /\ args \in ArgsSet
    /\ alphabet \in commands
    /\ log_output_live \in BOOLEAN
    /\ pipe_output \in BOOLEAN
    /\ fds = <<>>
    /\ ready = <<>>
    /\ lists = [s \in Streams |-> <<>>]
    /\ buffer = [s \in Streams |-> <<>>]
    /\ sink = [l \in {"debug", "warning"} |-> <<>>]
    /\ stdout = NoneBytes
    /\ stderr = NoneBytes
    /\ returncode = {}
    /\ exc = NoExc
    /\ origFault = NoExc
    /\ outcome = NoOutcome
    /\ hist = [terminate |-> FALSE, kill |-> FALSE, killFirst |-> FALSE,
               timedOut |-> FALSE, waits |-> 0, reaps |-> 0,
               bodyDone |-> FALSE, eof |-> {},
               flushes |-> [s \in Streams |-> 0], reread |-> FALSE]
    /\ elapsed = 0
    /\ child = "none"
    /\ exitStatus = 0
    /\ pipe = [s \in Streams |-> <<>>]
    /\ closed = [s \in Streams |-> FALSE]
    /\ written = [s \in Streams |-> <<>>]
    /\ blocked = None
    /\ rdClosed = FALSE

Init == Called(PlainCommands)

----------------------------------------------------------------------------
(* The child process and the kernel pipes *)

\* the child exits (or is killed): its write ends are closed with it
Exited(status) ==
    /\ child' = "zombie"
    /\ exitStatus' = status
    /\ closed' = [s \in Streams |-> TRUE]
    /\ blocked' = None

\* waitpid succeeds: the status becomes process.returncode
Reap(h) ==
    /\ child' = "reaped"
    /\ returncode' = {exitStatus}
    /\ hist' = [h EXCEPT !.reaps = @ + 1]

ChildWrite(s, b) ==
    /\ child = "running"
    /\ blocked = None
    /\ ~closed[s]
    /\ ~rdClosed
    /\ Len(written[s]) < MaxLen
    /\ b \in alphabet[s]
    /\ written' = [written EXCEPT ![s] = Append(@, b)]
    /\ IF pipe_output
       THEN /\ Len(pipe[s]) < PipeCap
            /\ pipe' = [pipe EXCEPT ![s] = Append(@, b)]
       ELSE pipe' = pipe
    /\ UNCHANGED <<child, exitStatus, closed, blocked>>
    /\ UNCHANGED <<parentVars, paramVars, rdClosed>>

\* write(2) on a full pipe does not return until the reader makes room
ChildBlock(s) ==
    /\ child = "running"
    /\ blocked = None
    /\ pipe_output
    /\ ~closed[s]
    /\ ~rdClosed
    /\ Len(written[s]) < MaxLen
    /\ Len(pipe[s]) = PipeCap
    /\ blocked' = s
    /\ UNCHANGED <<child, exitStatus, pipe, closed, written>>
    /\ UNCHANGED <<parentVars, paramVars, rdClosed>>

ChildUnblock(b) ==
    /\ child = "running"
    /\ blocked # None
    /\ ~rdClosed
    /\ Len(pipe[blocked]) < PipeCap
    /\ b \in alphabet[blocked]
    /\ pipe' = [pipe EXCEPT ![blocked] = Append(@, b)]
    /\ written' = [written EXCEPT ![blocked] = Append(@, b)]
    /\ blocked' = None
    /\ UNCHANGED <<child, exitStatus, closed>>
    /\ UNCHANGED <<parentVars, paramVars, rdClosed>>

\* a write to a pipe without reader: SIGPIPE kills the child, or the write
\* fails with EPIPE and the child goes on
ChildBrokenPipe(dies) ==
    /\ child = "running"
    /\ rdClosed
    /\ \/ blocked # None
       \/ \E s \in Streams : ~closed[s] /\ Len(written[s]) < MaxLen
    /\ IF dies
       THEN Exited(0 - SIGPIPE) /\ UNCHANGED <<pipe, written>>
       ELSE /\ blocked # None
            /\ blocked' = None
            /\ UNCHANGED <<child, exitStatus, pipe, closed, written>>
    /\ UNCHANGED <<parentVars, paramVars, rdClosed>>

ChildClose(s) ==
    /\ child = "running"
    /\ blocked = None
    /\ pipe_output
    /\ ~closed[s]
    /\ closed' = [closed EXCEPT ![s] = TRUE]
    /\ UNCHANGED <<child, exitStatus, pipe, written, blocked>>
    /\ UNCHANGED <<parentVars, paramVars, rdClosed>>

ChildExit(code) ==
    /\ child = "running"
    /\ blocked = None
    /\ Exited(code)
    /\ UNCHANGED <<pipe, written>>
    /\ UNCHANGED <<parentVars, paramVars, rdClosed>>

ChildNext ==
    \/ \E s \in Streams, b \in Bytes : ChildWrite(s, b)
    \/ \E s \in Streams : ChildBlock(s)
    \/ \E b \in Bytes : ChildUnblock(b)
    \/ \E s \in Streams : ChildClose(s)
    \/ \E c \in ExitCodes : ChildExit(c)

----------------------------------------------------------------------------
(* run_subprocess *)

\* Popen(...) succeeds and the drain loop is entered whatever pipe_output
SpawnAlwaysDrain ==
    /\ pc = "spawn"
    /\ child' = "running"
    /\ fds' = <<"stdout", "stderr">>
    /\ pc' = "loop"
    /\ UNCHANGED <<ready, lists, buffer, sink, stdout, stderr, returncode,
                   exc, origFault, outcome, hist, elapsed>>
    /\ UNCHANGED <<exitStatus, pipe, closed, written, blocked>>
    /\ UNCHANGED <<paramVars, rdClosed>>

\* Popen(...) succeeds; stdout_list, stderr_list, fds_map and fds are set up
Spawn ==
    /\ pc = "spawn"
    /\ child' = "running"
    /\ fds' = IF pipe_output THEN <<"stdout", "stderr">> ELSE <<>>
    /\ pc' = IF pipe_output THEN "loop" ELSE "wait"
    /\ UNCHANGED <<ready, lists, buffer, sink, stdout, stderr, returncode,
                   exc, origFault, outcome, hist, elapsed>>
    /\ UNCHANGED <<exitStatus, pipe, closed, written, blocked>>
    /\ UNCHANGED <<paramVars, rdClosed>>

\* Popen(...) raises inside the try block: the handler runs
SpawnErrorHandled ==
    /\ pc = "spawn"
    /\ pc' = "terminate"
    /\ exc' = [type |-> "OSError", at |-> "spawn"]
    /\ origFault' = exc'
    /\ UNCHANGED <<fds, ready, lists, buffer, sink, stdout, stderr,
                   returncode, outcome, hist, elapsed>>
    /\ UNCHANGED <<childVars, paramVars, rdClosed>>

\* Popen(...) raises: nothing was started and the with body never runs
SpawnError ==
    /\ pc = "spawn"
    /\ pc' = "done"
    /\ outcome' = [NoOutcome EXCEPT !.kind = "raised",
                       !.exc = [type |-> "OSError", at |-> "spawn"]]
    /\ UNCHANGED <<fds, ready, lists, buffer, sink, stdout, stderr,
                   returncode, exc, origFault, hist, elapsed>>
    /\ UNCHANGED <<childVars, paramVars, rdClosed>>

\* a bare `except:` or `except BaseException:` would catch everything
CaughtAlways(type) == TRUE

\* an exception raised inside the try body: `except Exception` catches it
\* unless it is a BaseException such as KeyboardInterrupt
Caught(type) == type # "KeyboardInterrupt"

Raise(type, at) ==
    /\ origFault' = [type |-> type, at |-> at]
    /\ exc' = [type |-> type, at |-> at]
    /\ pc' = IF Caught(type) THEN "terminate" ELSE "exit"

\* ret = select.select(fds, [], []): blocks until a descriptor is readable
Select ==
    /\ pc = "loop"
    /\ Filter(SelectFds(fds)) # <<>>
    /\ ready' = Filter(SelectFds(fds))
    /\ pc' = "for"
    /\ UNCHANGED <<fds, lists, buffer, sink, stdout, stderr, returncode, exc,
                   origFault, outcome, hist, elapsed>>
    /\ UNCHANGED <<childVars, paramVars, rdClosed>>

SelectFault(type) ==
    /\ pc = "loop"
    /\ Raise(type, "select")
    /\ UNCHANGED <<fds, ready, lists, buffer, sink, stdout, stderr,
                   returncode, outcome, hist, elapsed>>
    /\ UNCHANGED <<childVars, paramVars, rdClosed>>

\* the while loop stops as soon as one descriptor is gone
AfterFdFirstEof(r, f) ==
    IF r # <<>> THEN "for" ELSE IF Len(f) > 1 THEN "loop" ELSE "wait"

\* where the for loop goes after one descriptor: next descriptor, next
\* select, or past the while loop to process.wait()
AfterFd(r, f) ==
    IF r # <<>> THEN "for" ELSE IF f # <<>> THEN "loop" ELSE "wait"

\* one iteration of `for fd in ret[0]`; n is the number of lines the logger
\* accepts before it raises (all of them when fault is None).  A line that
\* _safe_decode cannot decode raises instead of being forwarded
ReadFd(fault, n) ==
    LET fd == Head(ready)
        buff == Take(pipe[fd], ReadMax)
        raw == IF buff # <<>>
               THEN Forwarded(log_output_live, buffer[fd], buff)
               ELSE FlushLines(buffer[fd])
        bad == {i \in 1..Len(raw) : DecodeRaises(raw[i])}
        stop == IF bad = {} THEN Len(raw)
                ELSE (CHOOSE i \in bad : \A j \in bad : i <= j) - 1
        raised == IF fault # None THEN fault
                  ELSE IF bad # {} THEN "UnicodeDecodeError" ELSE None
    IN  /\ pc = "for"
        /\ ready # <<>>
        /\ Readable(fd)
        /\ IF fault = None THEN n = stop ELSE n < stop
        /\ pipe' = [pipe EXCEPT ![fd] = Drop(@, ReadMax)]
        /\ hist' = IF buff # <<>>
                    THEN [hist EXCEPT !.reread = @ \/ fd \in hist.eof]
                    ELSE [hist EXCEPT
                            !.reread = @ \/ fd \in hist.eof,
                            !.eof = @ \cup {fd},
                            !.flushes[fd] = IF @ < 2 THEN @ + 1 ELSE @]
        /\ sink' = [sink EXCEPT
                      ![LoggerOf(fd)] = @ \o DecodeAll(SubSeq(raw, 1, n))]
        /\ IF buff # <<>>
           THEN /\ lists' = [lists EXCEPT ![fd] = Append(@, buff)]
                /\ buffer' = IF log_output_live
                             THEN [buffer EXCEPT
                                     ![fd] = LogBuffer(@, buff)]
                             ELSE buffer
                /\ fds' = fds
           ELSE /\ lists' = lists
                /\ fds' = Remove(fds, fd)
                /\ buffer' = IF raised = None
                             THEN [buffer EXCEPT ![fd] = <<>>]
                             ELSE buffer
        /\ IF raised = None
           THEN /\ ready' = Tail(ready)
                /\ pc' = AfterFd(ready', fds')
                /\ UNCHANGED <<exc, origFault>>
           ELSE /\ ready' = ready
                /\ Raise(raised, IF fault # None THEN "logger" ELSE "decode")
        /\ UNCHANGED <<stdout, stderr, returncode, outcome, elapsed>>
        /\ UNCHANGED <<child, exitStatus, closed, written, blocked>>
        /\ UNCHANGED <<paramVars, rdClosed>>

\* os.read(fd, 8192) raises
ReadFault(type) ==
    /\ pc = "for"
    /\ ready # <<>>
    /\ Raise(type, "read")
    /\ UNCHANGED <<fds, ready, lists, buffer, sink, stdout, stderr,
                   returncode, outcome, hist, elapsed>>
    /\ UNCHANGED <<childVars, paramVars, rdClosed>>

\* process.poll() in place of process.wait(): it does not block
WaitPoll ==
    /\ pc = "wait"
    /\ IF child = "zombie"
       THEN Reap([hist EXCEPT !.waits = @ + 1, !.bodyDone = TRUE])
       ELSE /\ hist' = [hist EXCEPT !.waits = @ + 1, !.bodyDone = TRUE]
            /\ UNCHANGED <<child, returncode>>
    /\ stdout' = IF pipe_output
                 THEN SomeBytes(Join(lists["stdout"])) ELSE NoneBytes
    /\ stderr' = IF pipe_output
                 THEN SomeBytes(Join(lists["stderr"])) ELSE NoneBytes
    /\ pc' = "check"
    /\ UNCHANGED <<fds, ready, lists, buffer, sink, exc, origFault, outcome,
                   elapsed>>
    /\ UNCHANGED <<exitStatus, pipe, closed, written, blocked>>
    /\ UNCHANGED <<paramVars, rdClosed>>

\* process.wait() returns once the child has exited, then the lists are
\* joined
Wait ==
    /\ pc = "wait"
    /\ child = "zombie"
    /\ Reap([hist EXCEPT !.waits = @ + 1, !.bodyDone = TRUE])
    /\ stdout' = IF pipe_output
                 THEN SomeBytes(Join(lists["stdout"])) ELSE NoneBytes
    /\ stderr' = IF pipe_output
                 THEN SomeBytes(Join(lists["stderr"])) ELSE NoneBytes
    /\ pc' = "check"
    /\ UNCHANGED <<fds, ready, lists, buffer, sink, exc, origFault, outcome,
                   elapsed>>
    /\ UNCHANGED <<exitStatus, pipe, closed, written, blocked>>
    /\ UNCHANGED <<paramVars, rdClosed>>

WaitFault(type) ==
    /\ pc = "wait"
    /\ Raise(type, "wait")
    /\ hist' = [hist EXCEPT !.waits = @ + 1]
    /\ UNCHANGED <<fds, ready, lists, buffer, sink, stdout, stderr,
                   returncode, outcome, elapsed>>
    /\ UNCHANGED <<childVars, paramVars, rdClosed>>

\* only a death by signal counts as failure
FailedOnSignal(rc) == \E c \in rc : c < 0

\* process.returncode != 0
Failed(rc) == rc # {0}

\* the error is built without stderr=stderr
CalledProcessErrorNoStderr(rc, cmd, output, err) ==
    [kind |-> "CalledProcessError", args |-> cmd, returncode |-> rc,
     stdout |-> output, stderr |-> NoneBytes,
     exc |-> [type |-> "CalledProcessError", at |-> "check"]]

\* subprocess.CalledProcessError(returncode=, cmd=, output=, stderr=)
CalledProcessError(rc, cmd, output, err) ==
    [kind |-> "CalledProcessError", args |-> cmd, returncode |-> rc,
     stdout |-> output, stderr |-> err,
     exc |-> [type |-> "CalledProcessError", at |-> "check"]]

\* CompletedProcess(args, process.returncode, stdout, stderr)
CompletedProcess(cmd, rc, output, err) ==
    [kind |-> "CompletedProcess", args |-> cmd, returncode |-> rc,
     stdout |-> output, stderr |-> err, exc |-> NoExc]

\* if process.returncode != 0: raise CalledProcessError(...)
Check ==
    /\ pc = "check"
    /\ pc' = "exit"
    /\ IF Failed(returncode)
       THEN /\ outcome' = CalledProcessError(returncode, args, stdout,
                                             stderr)
            /\ exc' = outcome'.exc
       ELSE UNCHANGED <<exc, outcome>>
    /\ UNCHANGED <<fds, ready, lists, buffer, sink, stdout, stderr,
                   returncode, origFault, hist, elapsed>>
    /\ UNCHANGED <<childVars, paramVars, rdClosed>>

----------------------------------------------------------------------------
(* The except block: terminate, wait(1), kill, raise *)

\* process.terminate(): SIGTERM.  The child dies of it or ignores it; on a
\* child that has already exited the call either polls (and reaps) it or
\* has no effect, depending on the Python version
Terminate(effect) ==
    /\ pc = "terminate"
    /\ pc' = "gracewait"
    /\ \/ /\ effect = "dies"
          /\ child = "running"
          /\ Exited(0 - SIGTERM)
          /\ hist' = [hist EXCEPT !.terminate = TRUE]
          /\ UNCHANGED returncode
       \/ /\ effect = "ignored"
          /\ hist' = [hist EXCEPT !.terminate = TRUE]
          /\ UNCHANGED <<child, exitStatus, closed, blocked, returncode>>
       \/ /\ effect = "polled"
          /\ child = "zombie"
          /\ Reap([hist EXCEPT !.terminate = TRUE])
          /\ UNCHANGED <<exitStatus, closed, blocked>>
    /\ UNCHANGED <<fds, ready, lists, buffer, sink, stdout, stderr, exc,
                   origFault, outcome, elapsed>>
    /\ UNCHANGED <<pipe, written, paramVars, rdClosed>>

\* an exception raised inside the except block replaces the one handled
CleanupFault(at, type) ==
    /\ exc' = [type |-> type, at |-> at]
    /\ pc' = "exit"

TerminateFault(type) ==
    /\ pc = "terminate"
    /\ CleanupFault("terminate", type)
    /\ hist' = [hist EXCEPT !.terminate = TRUE]
    /\ UNCHANGED <<fds, ready, lists, buffer, sink, stdout, stderr,
                   returncode, origFault, outcome, elapsed>>
    /\ UNCHANGED <<childVars, paramVars, rdClosed>>

\* process.wait(1) keeps waiting while the child runs and the second lasts
GraceTick ==
    /\ pc = "gracewait"
    /\ child = "running"
    /\ elapsed < Grace
    /\ elapsed' = elapsed + 1
    /\ UNCHANGED <<pc, fds, ready, lists, buffer, sink, stdout, stderr,
                   returncode, exc, origFault, outcome, hist>>
    /\ UNCHANGED <<childVars, paramVars, rdClosed>>

\* process.wait(1) returns: the child has exited within the grace period
GraceReturn ==
    /\ pc = "gracewait"
    /\ child # "running"
    /\ pc' = "reraise"
    /\ IF child = "zombie"
       THEN Reap(hist)
       ELSE UNCHANGED <<child, returncode, hist>>
    /\ UNCHANGED <<fds, ready, lists, buffer, sink, stdout, stderr, exc,
                   origFault, outcome, elapsed>>
    /\ UNCHANGED <<exitStatus, pipe, closed, written, blocked>>
    /\ UNCHANGED <<paramVars, rdClosed>>

\* TimeoutExpired is caught and passed over: no kill
GraceTimeoutNoKill ==
    /\ pc = "gracewait"
    /\ child = "running"
    /\ elapsed = Grace
    /\ pc' = "reraise"
    /\ hist' = [hist EXCEPT !.timedOut = TRUE]
    /\ UNCHANGED <<fds, ready, lists, buffer, sink, stdout, stderr,
                   returncode, exc, origFault, outcome, elapsed>>
    /\ UNCHANGED <<childVars, paramVars, rdClosed>>

\* process.wait(1) raises subprocess.TimeoutExpired, which is caught
GraceTimeout ==
    /\ pc = "gracewait"
    /\ child = "running"
    /\ elapsed = Grace
    /\ pc' = "kill"
    /\ hist' = [hist EXCEPT !.timedOut = TRUE]
    /\ UNCHANGED <<fds, ready, lists, buffer, sink, stdout, stderr,
                   returncode, exc, origFault, outcome, elapsed>>
    /\ UNCHANGED <<childVars, paramVars, rdClosed>>

GraceFault(type) ==
    /\ pc = "gracewait"
    /\ CleanupFault("wait(1)", type)
    /\ UNCHANGED <<fds, ready, lists, buffer, sink, stdout, stderr,
                   returncode, origFault, outcome, hist, elapsed>>
    /\ UNCHANGED <<childVars, paramVars, rdClosed>>

\* process.kill(): SIGKILL cannot be ignored
Kill(effect) ==
    /\ pc = "kill"
    /\ pc' = "reraise"
    /\ \/ /\ effect = "dies"
          /\ child = "running"
          /\ Exited(0 - SIGKILL)
          /\ hist' = [hist EXCEPT !.kill = TRUE,
                                  !.killFirst = ~hist.terminate]
          /\ UNCHANGED returncode
       \/ /\ effect = "ignored"
          /\ child = "zombie"
          /\ hist' = [hist EXCEPT !.kill = TRUE,
                                  !.killFirst = ~hist.terminate]
          /\ UNCHANGED <<child, exitStatus, closed, blocked, returncode>>
       \/ /\ effect = "polled"
          /\ child = "zombie"
          /\ Reap([hist EXCEPT !.kill = TRUE,
                                !.killFirst = ~hist.terminate])
          /\ UNCHANGED <<exitStatus, closed, blocked>>
    /\ UNCHANGED <<fds, ready, lists, buffer, sink, stdout, stderr, exc,
                   origFault, outcome, elapsed>>
    /\ UNCHANGED <<pipe, written, paramVars, rdClosed>>

KillFault(type) ==
    /\ pc = "kill"
    /\ CleanupFault("kill", type)
    /\ hist' = [hist EXCEPT !.kill = TRUE, !.killFirst = ~hist.terminate]
    /\ UNCHANGED <<fds, ready, lists, buffer, sink, stdout, stderr,
                   returncode, origFault, outcome, elapsed>>
    /\ UNCHANGED <<childVars, paramVars, rdClosed>>

\* the bare `raise`: the exception being handled propagates again
Reraised(handled) == handled

Reraise ==
    /\ pc = "reraise"
    /\ exc' = Reraised(origFault)
    /\ pc' = "exit"
    /\ UNCHANGED <<fds, ready, lists, buffer, sink, stdout, stderr,
                   returncode, origFault, outcome, hist, elapsed>>
    /\ UNCHANGED <<childVars, paramVars, rdClosed>>

----------------------------------------------------------------------------
(* Leaving the with block: Popen.__exit__ *)

\* __exit__ closes process.stdout and process.stderr
ExitClose ==
    /\ pc = "exit"
    /\ pc' = "exitwait"
    /\ rdClosed' = pipe_output
    /\ UNCHANGED <<fds, ready, lists, buffer, sink, stdout, stderr,
                   returncode, exc, origFault, outcome, hist, elapsed>>
    /\ UNCHANGED <<childVars, paramVars>>

\* what the caller gets when the with block is left with exception e
Propagated(e) ==
    IF e.type = "CalledProcessError" THEN outcome
    ELSE [NoOutcome EXCEPT !.kind = "raised", !.exc = e]

\* leaving without the with block: nobody waits for the child
ExitNoWait(leave) ==
    /\ pc = "exitwait"
    /\ ~leave
    /\ pc' = IF exc = NoExc THEN "return" ELSE "done"
    /\ outcome' = IF exc = NoExc THEN outcome ELSE Propagated(exc)
    /\ UNCHANGED <<fds, ready, lists, buffer, sink, stdout, stderr, exc,
                   origFault, elapsed, returncode, hist>>
    /\ UNCHANGED <<childVars, paramVars, rdClosed>>

\* __exit__ waits for the child; on KeyboardInterrupt the wait may be cut
\* short and the child left behind
ExitWait(leave) ==
    /\ pc = "exitwait"
    /\ IF leave
       THEN /\ exc.type = "KeyboardInterrupt"
            /\ child = "running"
            /\ UNCHANGED <<child, returncode, hist>>
       ELSE /\ child # "running"
            /\ IF child = "zombie"
               THEN Reap(hist)
               ELSE UNCHANGED <<child, returncode, hist>>
    /\ pc' = IF exc = NoExc THEN "return" ELSE "done"
    /\ outcome' = IF exc = NoExc THEN outcome ELSE Propagated(exc)
    /\ UNCHANGED <<fds, ready, lists, buffer, sink, stdout, stderr, exc,
                   origFault, elapsed>>
    /\ UNCHANGED <<exitStatus, pipe, closed, written, blocked>>
    /\ UNCHANGED <<paramVars, rdClosed>>

\* return CompletedProcess(args, process.returncode, stdout, stderr)
Return ==
    /\ pc = "return"
    /\ pc' = "done"
    /\ outcome' = CompletedProcess(args, returncode, stdout, stderr)
    /\ UNCHANGED <<fds, ready, lists, buffer, sink, stdout, stderr,
                   returncode, exc, origFault, hist, elapsed>>
    /\ UNCHANGED <<childVars, paramVars, rdClosed>>

----------------------------------------------------------------------------
Effects == {"dies", "ignored", "polled"}

DrainNext ==
    \/ Spawn
    \/ Select
    \/ \E n \in 0..MaxLen : ReadFd(None, n)
    \/ Wait
    \/ Check
    \/ ExitClose
    \/ \E l \in BOOLEAN : ExitWait(l)
    \/ Return

CleanupNext ==
    \/ \E e \in Effects : Terminate(e)
    \/ GraceTick
    \/ GraceReturn
    \/ GraceTimeout
    \/ \E e \in Effects : Kill(e)
    \/ Reraise

FaultNext ==
    \/ SpawnError
    \/ \E t \in ExcTypes : SelectFault(t)
    \/ \E t \in ExcTypes : ReadFault(t)
    \/ \E t \in ExcTypes, n \in 0..MaxLen : ReadFd(t, n)
    \/ \E t \in ExcTypes : WaitFault(t)
    \/ \E t \in ExcTypes : TerminateFault(t)
    \/ \E t \in ExcTypes : GraceFault(t)
    \/ \E t \in ExcTypes : KillFault(t)

\* the child once run_subprocess has left it behind
OrphanNext == \E d \in BOOLEAN : ChildBrokenPipe(d)

Next == DrainNext \/ CleanupNext \/ FaultNext \/ ChildNext \/ OrphanNext

\* every run of run_subprocess on a command that writes plain text,
\* exceptions included
Spec == Init /\ [][Next]_vars

\* the runs in which nothing raises, on commands that write lines
DrainInit == Called(LineCommands)
NoFaultNext == DrainNext \/ ChildNext
DrainSpec == DrainInit /\ [][NoFaultNext]_vars

\* the runs in which nothing is made to raise, on commands that write
\* bytes that are not UTF-8
DecodeSpec == Called(BinaryCommands) /\ [][NoFaultNext]_vars

\* the runs in which nothing raises, on commands that write plain text,
\* when the scheduler runs both processes: run_subprocess takes its next
\* step and the child takes its next step
FairDrainSpec ==
    Init /\ [][NoFaultNext]_vars /\ WF_vars(DrainNext) /\ WF_vars(ChildNext)

TypeOK ==
    /\ pc \in {"spawn", "loop", "for", "wait", "check", "terminate",
               "gracewait", "kill", "reraise", "exit", "exitwait",
               "return", "done"}
    /\ child \in {"none", "running", "zombie", "reaped"}
    /\ \A s \in Streams : Len(pipe[s]) <= PipeCap /\ Len(written[s]) <= MaxLen
    /\ elapsed \in 0..Grace

----------------------------------------------------------------------------
(* Vocabulary of the properties *)

Results == {"CompletedProcess", "CalledProcessError"}

\* the bytes run_subprocess has read from a stream so far
ReadSoFar(s) == Join(lists[s])

\* positions of the newlines of a byte string
NLPos(bs) == {i \in 1..Len(bs) : bs[i] = NL}

\* the k-th newline of bs
NthNL(bs, k) ==
    CHOOSE p \in NLPos(bs) : Cardinality({q \in NLPos(bs) : q <= p}) = k

\* the lines of bs that a newline terminates, without their newline
TerminatedLines(bs) ==
    [k \in 1..Cardinality(NLPos(bs)) |->
        SubSeq(bs, (IF k = 1 THEN 0 ELSE NthNL(bs, k - 1)) + 1,
               NthNL(bs, k) - 1)]

\* what follows the last newline of bs
Unterminated(bs) ==
    SubSeq(bs, (IF NLPos(bs) = {} THEN 0
                ELSE NthNL(bs, Cardinality(NLPos(bs)))) + 1, Len(bs))

\* the text the logger must have received for stream s
ExpectedLines(s) ==
    LET bs == ReadSoFar(s)
    IN  DecodeAll(TerminatedLines(bs)
                  \o (IF s \in hist.eof /\ Unterminated(bs) # <<>>
                      THEN <<Unterminated(bs)>> ELSE <<>>))

\* what an outcome must hold for a stream
Captured(s) == IF pipe_output THEN SomeBytes(written[s]) ELSE NoneBytes

----------------------------------------------------------------------------
C2_LineSplitting ==
    (log_output_live /\ pipe_output) =>
        \A s \in Streams : sink[LoggerOf(s)] = ExpectedLines(s)

\* "a\nb" read in two chunks: a was forwarded at its newline, b at flush
C2_Witness ==
    /\ log_output_live
    /\ "stdout" \in hist.eof
    /\ lists["stdout"] = <<<<97, NL>>, <<97>>>>
    /\ sink["debug"] = <<<<97>>, <<97>>>>
    /\ buffer["stdout"] = <<>>

(* C3: the child is never blocked on a full pipe that select is not        *)
(* waiting on, and when the child and run_subprocess both keep running,    *)
(* the list of open descriptors empties and run_subprocess finishes.       *)
C3_NoStall ==
    (pc = "loop" /\ blocked # None) => blocked \in Range(SelectFds(fds))

C3_NoDeadlock ==
    [](C3_NoStall) /\ <>(pc = "done" /\ fds = <<>>)

\* the child has written more than a pipe holds to stdout and is blocked
\* on a full stderr pipe while stdout has nothing to read
C3_Witness ==
    /\ pc = "loop"
    /\ blocked = "stderr"
    /\ Len(pipe["stderr"]) = PipeCap
    /\ Len(written["stdout"]) > PipeCap
    /\ pipe["stdout"] = <<>>
    /\ ~closed["stdout"]

C5_FailurePath ==
    (pc = "done" /\ exitStatus # 0) =>
        /\ outcome.kind = "CalledProcessError"
        /\ outcome.exc.type = "CalledProcessError"
        /\ outcome.args = args
        /\ outcome.returncode = {exitStatus}
        /\ outcome.stdout = Captured("stdout")
        /\ outcome.stderr = Captured("stderr")

\* exit code 2 with output on both streams
C5_Witness ==
    /\ pc = "done"
    /\ outcome.kind = "CalledProcessError"
    /\ outcome.returncode = {2}
    /\ outcome.stdout = SomeBytes(<<97, NL>>)
    /\ outcome.stderr = SomeBytes(<<98>>)

(* C6: when a read raises an error, terminate() is called first, then     *)
(* wait(1) waits no longer than the grace period, kill() is called if and  *)
(* only if that wait timed out (never before terminate, never when the     *)
(* child exited in time), no CompletedProcess or CalledProcessError is     *)
(* built, and when the cleanup calls themselves return the caller gets the *)
(* read error.                                                             *)
CleanupSteps == {"terminate", "wait(1)", "kill"}

C6_CleanupEscalation ==
    (origFault.at = "read" /\ origFault.type = "OSError") =>
        /\ pc \in {"gracewait", "kill", "reraise"} => hist.terminate
        /\ hist.kill => hist.terminate /\ ~hist.killFirst /\ hist.timedOut
        /\ elapsed <= Grace
        /\ hist.timedOut => elapsed = Grace
        /\ (pc = "reraise" /\ hist.timedOut) => hist.kill
        /\ (pc = "reraise" /\ ~hist.timedOut) => child # "running"
        /\ outcome.kind \notin Results
        /\ (pc = "done" /\ exc.at \notin CleanupSteps) =>
               /\ outcome.kind = "raised"
               /\ outcome.exc = origFault
               /\ hist.terminate
               /\ hist.kill <=> hist.timedOut

\* a read error, a child that ignores SIGTERM for the whole grace period,
\* the kill, and the read error back at the caller
C6_Witness ==
    /\ pc = "done"
    /\ origFault = [type |-> "OSError", at |-> "read"]
    /\ outcome.exc = origFault
    /\ hist.terminate /\ hist.timedOut /\ hist.kill
    /\ exitStatus = 0 - SIGKILL

(* C7: whenever the cleanup was started by an exception, the exception    *)
(* that reaches the caller is that exception, whatever terminate(),        *)
(* wait(1) and kill() did.                                                 *)
C7_OriginalNeverSuppressed ==
    (pc = "done" /\ hist.terminate) =>
        outcome.kind = "raised" /\ outcome.exc = origFault

C9_OutcomeAfterEofAndWait ==
    (pipe_output /\ (outcome.kind \in Results \/ pc \in {"check", "return"}))
        => /\ hist.eof = Streams
           /\ fds = <<>>
           /\ hist.bodyDone
           /\ child = "reaped"
           /\ returncode = {exitStatus}

\* a CalledProcessError built after both ends of stream and the wait
C9_Witness ==
    /\ pipe_output
    /\ outcome.kind = "CalledProcessError"
    /\ hist.eof = Streams
    /\ child = "reaped"
    /\ written["stdout"] # <<>>

(* C10: wait() is called at most once, and only after both streams        *)
(* reached end-of-stream; the child is never reaped twice; returncode is   *)
(* unknown until the child is reaped; an outcome comes from exactly one    *)
(* wait and one reaping.                                                   *)
C10_WaitOnce ==
    /\ hist.waits <= 1
    /\ hist.reaps <= 1
    /\ (hist.waits = 1 /\ pipe_output) => hist.eof = Streams /\ fds = <<>>
    /\ pc \in {"spawn", "loop", "for", "wait"} =>
           returncode = {} /\ hist.reaps = 0
    /\ returncode # {} =>
           hist.reaps = 1 /\ child = "reaped" /\ returncode = {exitStatus}
    /\ outcome.kind \in Results =>
           /\ hist.waits = 1
           /\ hist.reaps = 1
           /\ outcome.returncode = {exitStatus}

\* a result after one wait and one reaping
C10_Witness ==
    /\ outcome.kind = "CompletedProcess"
    /\ pipe_output
    /\ hist.waits = 1
    /\ hist.reaps = 1
    /\ hist.eof = Streams

Count(bs, b) == Cardinality({i \in 1..Len(bs) : bs[i] = b})

(* C12: with log_output_live, the bytes the child wrote to stderr are in   *)
(* the stdout of the outcome, and the outcome has no separate stderr.      *)
C12_StderrMerged ==
    (log_output_live /\ pipe_output /\ outcome.kind \in Results) =>
        /\ outcome.stderr.val = <<>>
        /\ outcome.stdout.some
        /\ \A b \in Bytes :
               Count(outcome.stdout.val, b)
                   = Count(written["stdout"], b) + Count(written["stderr"], b)

(* C13: when pipe_output is False there are no pipes and no drain loop,    *)
(* nothing is read, logged or flushed whatever log_output_live is, and     *)
(* the invocation still ends in one wait and an outcome chosen by the      *)
(* exit code, whose stdout and stderr are None.                            *)
C13_NoPipes ==
    ~pipe_output =>
        /\ fds = <<>> /\ ready = <<>>
        /\ pc \notin {"loop", "for"}
        /\ hist.eof = {}
        /\ \A s \in Streams :
               /\ pipe[s] = <<>>
               /\ lists[s] = <<>>
               /\ buffer[s] = <<>>
               /\ hist.flushes[s] = 0
        /\ \A l \in DOMAIN sink : sink[l] = <<>>
        /\ pc = "done" =>
               /\ outcome.kind \in Results
               /\ hist.waits = 1
               /\ outcome.stdout = NoneBytes
               /\ outcome.stderr = NoneBytes
               /\ outcome.returncode = {exitStatus}
               /\ outcome.kind = "CompletedProcess" <=> exitStatus = 0

\* a command that wrote to its inherited stdout and failed, run with
\* log_output_live and without pipes
C13_Witness ==
    /\ ~pipe_output
    /\ log_output_live
    /\ pc = "done"
    /\ written["stdout"] # <<>>
    /\ outcome.kind = "CalledProcessError"
    /\ outcome.stdout = NoneBytes
    /\ hist.waits = 1

\* the characters of the lines a sink has received
SinkChars(l) == UNION {Range(sink[l][i]) : i \in 1..Len(sink[l])}

(* C14: with live logging, the debug sink receives as many lines as        *)
(* stdout produced and every character in it was written to stdout, and    *)
(* the warning sink receives as many lines as stderr produced and every    *)
(* character in it was written to stderr (the two streams write different  *)
(* letters), in every interleaving of the reads.                           *)
C14_SeverityRouting ==
    (log_output_live /\ pipe_output) =>
        /\ SinkChars("debug") \subseteq Text("stdout")
        /\ SinkChars("warning") \subseteq Text("stderr")
        /\ Len(sink["debug"]) = Len(ExpectedLines("stdout"))
        /\ Len(sink["warning"]) = Len(ExpectedLines("stderr"))

\* a line of stderr was forwarded while stdout was still open, and the end
\* of stdout flushed its text, each to its own sink
C14_Witness ==
    /\ log_output_live /\ pipe_output
    /\ sink["warning"] = <<<<98>>>>
    /\ sink["debug"] = <<<<97>>>>
    /\ lists["stderr"] = <<<<98, NL>>>>
    /\ hist.eof = {"stdout"}

(* C15: when log_output_live is False no logger ever receives anything    *)
(* and no LineLogger ever buffers anything, before and after the          *)
(* end-of-stream flushes, while the chunks read so far, in order, are      *)
(* exactly the bytes the child wrote that are no longer in the pipe.       *)
C15_LiveOff ==
    ~log_output_live =>
        /\ \A l \in DOMAIN sink : sink[l] = <<>>
        /\ \A s \in Streams : buffer[s] = <<>>
        /\ pipe_output =>
               \A s \in Streams :
                   /\ ReadSoFar(s) \o pipe[s] = written[s]
                   /\ \A i \in 1..Len(lists[s]) : lists[s][i] # <<>>

\* both streams were read to their end in several chunks, one with lines
\* and an unterminated rest, and nothing was logged
C15_Witness ==
    /\ ~log_output_live /\ pipe_output
    /\ hist.eof = Streams
    /\ hist.flushes = [s \in Streams |-> 1]
    /\ lists["stdout"] = <<<<97, NL>>, <<97>>>>
    /\ lists["stderr"] # <<>>
    /\ sink["debug"] = <<>> /\ sink["warning"] = <<>>

\* the text of byte 0xff once escaped: \xff
EscapedFF == <<92, 120, 102, 102>>

(* C16: on output that is not valid UTF-8, with nothing else going wrong,  *)
(* nothing but CalledProcessError for the exit code is ever raised and    *)
(* the cleanup path is never entered;                                      *)
(* with live logging every line is still forwarded, as ASCII text in       *)
(* which a byte 0xff reads \xff; and the bytes read and the captured       *)
(* stdout are the raw bytes the child wrote.                               *)
C16_MalformedNeverFails ==
    /\ exc.type \in {None, "CalledProcessError"} /\ origFault = NoExc
    /\ outcome.kind # "raised"
    /\ ~hist.terminate /\ ~hist.kill
    /\ pc \in {"spawn", "loop", "for", "wait", "check", "exit", "exitwait",
               "return", "done"}
    /\ pipe_output => ReadSoFar("stdout") \o pipe["stdout"] = written["stdout"]
    /\ (pipe_output /\ outcome.kind \in Results) =>
           outcome.stdout = SomeBytes(written["stdout"])
    /\ (pipe_output /\ log_output_live) =>
           /\ Len(sink["debug"]) = Len(ExpectedLines("stdout"))
           /\ \A i \in 1..Len(sink["debug"]) :
                  \A j \in 1..Len(sink["debug"][i]) : sink["debug"][i][j] < 128
           /\ (Len(sink["debug"]) > 0 /\ Take(written["stdout"], 2) = <<255, NL>>)
                  => sink["debug"][1] = EscapedFF

\* the command wrote b"\xff\n": the line was logged escaped and the result
\* holds the raw bytes
C16_Witness ==
    /\ log_output_live /\ pipe_output
    /\ pc = "done"
    /\ outcome.kind = "CompletedProcess"
    /\ written["stdout"] = <<255, NL>>
    /\ outcome.stdout = SomeBytes(<<255, NL>>)
    /\ sink["debug"] = <<EscapedFF>>

(* C17: when Popen raises, control is back with the caller at once with    *)
(* that error as the outcome: no child exists, nothing was drained,        *)
(* waited for, terminated, killed or logged, and the outcome is neither a  *)
(* CompletedProcess nor a CalledProcessError; and only a failed spawn      *)
(* leaves an invocation past its first step without a child.               *)
C17_SpawnFailure ==
    /\ (child = "none" /\ pc # "spawn") =>
           /\ pc = "done"
           /\ outcome.kind = "raised"
           /\ outcome.exc = [type |-> "OSError", at |-> "spawn"]
           /\ outcome.returncode = {}
           /\ outcome.stdout = NoneBytes /\ outcome.stderr = NoneBytes
           /\ origFault = NoExc
           /\ fds = <<>> /\ ready = <<>>
           /\ hist.eof = {}
           /\ hist.waits = 0 /\ hist.reaps = 0
           /\ ~hist.terminate /\ ~hist.kill /\ ~hist.timedOut
           /\ ~hist.bodyDone
           /\ returncode = {}
           /\ \A s \in Streams : lists[s] = <<>> /\ written[s] = <<>>
           /\ \A l \in DOMAIN sink : sink[l] = <<>>
    /\ outcome.exc.at = "spawn" => child = "none"

\* Popen raised in an invocation that asked for pipes and live logging
C17_Witness ==
    /\ pc = "done"
    /\ child = "none"
    /\ log_output_live /\ pipe_output
    /\ outcome.kind = "raised"
    /\ outcome.exc.at = "spawn"

\* the handles that have not reached end-of-stream, in the order of fds_map
StillOpen == SelectSeq(<<"stdout", "stderr">>, LAMBDA s : s \notin hist.eof)

\* what holds of the drain loop in every state
C18_EofState ==
    pipe_output =>
        /\ \A s \in Streams :
               hist.flushes[s] = IF s \in hist.eof THEN 1 ELSE 0
        /\ ~hist.reread
        /\ pc # "spawn" => fds = StillOpen
        /\ pc = "loop" => fds # <<>>
        /\ pc = "for" => ready # <<>>
        /\ pc \notin {"spawn", "loop", "for"} =>
               fds = <<>> /\ hist.eof = Streams
        /\ \A s \in hist.eof : buffer[s] = <<>>

(* C18: a stream is flushed exactly when its zero-length read happens,     *)
(* hence once; no handle is read after its zero-length read; the active    *)
(* set is the handles that have not had theirs and, once set up, only      *)
(* loses handles; the loop goes on while the set is not empty and is left  *)
(* only when it is empty, every stream flushed; a flushed stream has no    *)
(* residue.                                                                *)
C18_EndOfStream ==
    /\ [](C18_EofState)
    /\ [][pc # "spawn" => Range(fds') \subseteq Range(fds)]_vars
    /\ [][hist'.eof # hist.eof =>
             /\ \E s \in Streams :
                    /\ hist'.eof = hist.eof \cup {s}
                    /\ s \notin hist.eof
                    /\ s \in Range(fds)
                    /\ Range(fds') = Range(fds) \ {s}
                    /\ hist'.flushes[s] = hist.flushes[s] + 1
                    /\ buffer'[s] = <<>>]_vars

\* stderr ended with an unterminated rest, which its flush forwarded, and
\* left the active set while stdout is still being read
C18_Witness ==
    /\ log_output_live /\ pipe_output
    /\ pc = "loop"
    /\ hist.eof = {"stderr"}
    /\ hist.flushes["stderr"] = 1
    /\ fds = <<"stdout">>
    /\ written["stderr"] = <<98>>
    /\ sink["warning"] = <<<<98>>>>
    /\ buffer["stderr"] = <<>>
    /\ lists["stdout"] # <<>>

RECURSIVE Unlines(_)
\* the lines of ls, each followed by a newline, one after the other
Unlines(ls) == IF ls = <<>> THEN <<>> ELSE Head(ls) \o <<NL>> \o Unlines(Tail(ls))

(* C19: with live logging, while a stream has not been flushed, its        *)
(* residue holds no newline, and the lines forwarded for it so far, each   *)
(* followed by a newline, followed by the residue, are exactly the bytes   *)
(* read from it so far, however the bytes were cut into chunks.            *)
C19_ResidueInvariant ==
    (log_output_live /\ pipe_output) =>
        \A s \in Streams :
            s \notin hist.eof =>
                /\ \A i \in 1..Len(buffer[s]) : buffer[s][i] # NL
                /\ Unlines(sink[IF s = "stdout" THEN "debug" ELSE "warning"])
                       \o buffer[s] = ReadSoFar(s)

\* a first chunk that holds two newlines and ends exactly on the second,
\* then a chunk without one
C19_Witness ==
    /\ log_output_live /\ pipe_output
    /\ "stdout" \notin hist.eof
    /\ lists["stdout"] = <<<<NL, NL>>, <<97>>>>
    /\ sink["debug"] = <<<<>>, <<>>>>
    /\ buffer["stdout"] = <<97>>

\* what holds between a readiness wait and the reads it leads to
C20_ReadyState ==
    /\ pc = "for" =>
           /\ ready # <<>>
           /\ \A i \in 1..Len(ready) :
                  /\ pipe[ready[i]] # <<>> \/ closed[ready[i]]
                  /\ ready[i] \in Range(fds)
                  /\ ready[i] \notin hist.eof
                  /\ \A j \in 1..Len(ready) : ready[j] = ready[i] => j = i
    /\ pc # "for" => ready = <<>>
    /\ Range(fds) \cap hist.eof = {}
    /\ \A s \in Streams :
           \A i \in 1..Len(lists[s]) :
               Len(lists[s][i]) \in 1..ReadMax

(* C20: between a readiness wait and the reads it leads to, every handle   *)
(* still to be read was reported ready by that wait, is readable (has      *)
(* data or is at end-of-file, so that os.read returns at once), is in the  *)
(* active set, has not reached end-of-stream and is listed once; the       *)
(* handles being waited on never include one that reached end-of-stream;   *)
(* a read is of the first handle still to be read, takes one chunk of at   *)
(* most the read size from that handle only and strikes it off; and the    *)
(* next readiness wait comes only when no handle is left to be read.       *)
C20_ReadsNeverBlock ==
    /\ [](C20_ReadyState)
    /\ [][(pc = "for" /\ (lists' # lists \/ hist'.eof # hist.eof)) =>
             /\ ready' = Tail(ready)
             /\ \A s \in Streams \ {Head(ready)} :
                    lists'[s] = lists[s] /\ (s \in hist'.eof <=> s \in hist.eof)
             /\ \/ /\ lists'[Head(ready)]
                          = Append(lists[Head(ready)],
                                   Take(pipe[Head(ready)], ReadMax))
                      /\ pipe[Head(ready)] # <<>>
                      /\ hist'.eof = hist.eof
                \/ /\ lists' = lists
                      /\ pipe[Head(ready)] = <<>>
                      /\ hist'.eof = hist.eof \cup {Head(ready)}]_vars
    /\ [][(lists' # lists \/ hist'.eof # hist.eof) => pc = "for"]_vars
    /\ [][ready' # ready =>
             \/ pc = "loop" /\ ready = <<>> /\ pc' = "for"
             \/ pc = "for" /\ ready' = Tail(ready)]_vars

\* select reported stderr only: stdout is open and has nothing to read
C20_Witness ==
    /\ pc = "for"
    /\ ready = <<"stderr">>
    /\ fds = <<"stdout", "stderr">>
    /\ pipe["stdout"] = <<>> /\ ~closed["stdout"]
    /\ pipe["stderr"] # <<>>
    /\ lists["stdout"] # <<>>

====
